---------------------------- MODULE Spec2Model ----------------------------
(***************************************************************************)
(* A model of beardantic: the schema model (SchemaField, TableSchema,      *)
(* DatasetSchema of models.py), the DataFrame validator (validators.py)    *)
(* and the older copies of both that schema.py keeps.                      *)
(*                                                                         *)
(* Python strings whose characters the code inspects (type names, which    *)
(* are lowercased, and the renderings of runtime types, which are searched *)
(* for substrings) are sequences of one-character strings.  Names that the *)
(* code only compares for equality (column, field and table names) are     *)
(* plain strings.  An Optional value is a sequence of length 0 (None) or 1. *)
(***************************************************************************)
EXTENDS Integers, Sequences, FiniteSets, TLC

VARIABLES
    pc,               \* position of the operation in progress
    impl,             \* validate_dataframe: the module called, validators.py or schema.py
    table_schema,     \* validate_dataframe: the TableSchema argument (its columns)
    df,               \* validate_dataframe: the DataFrame argument
    raise_exception,  \* validate_dataframe: the raise_exception argument
    fields_is_mapping,\* whether the runtime's Struct.fields offers .keys()
    errors,           \* validate_dataframe: the local list `errors`
    i,                \* validate_dataframe: index of the loop over table_schema.columns
    outcome,          \* how the operation in progress ended: what it returned or raised
    raw,              \* schema construction: the parsed definition (a nested mapping)
    dataset,          \* the constructed DatasetSchema (Optional)
    previous          \* validate_dataframe: how an earlier call on the same arguments ended (Optional)

vars == <<pc, impl, table_schema, df, raise_exception, fields_is_mapping, errors, i,
          outcome, raw, dataset, previous>>

-----------------------------------------------------------------------------
(* Bounds of the model. *)

\* longest column list of a table schema
MaxCols == 2
\* largest null count of a DataFrame column
MaxNulls == 2
\* longest table list of a dataset schema
MaxTables == 3

-----------------------------------------------------------------------------
(* Python strings. *)

None == <<>>
Some(x) == <<x>>

\* the set of the elements of a sequence
Range(seq) == {seq[k] : k \in 1..Len(seq)}

UpperLetters == <<"A","B","C","D","E","F","G","H","I","J","K","L","M",
                  "N","O","P","Q","R","S","T","U","V","W","X","Y","Z">>
LowerLetters == <<"a","b","c","d","e","f","g","h","i","j","k","l","m",
                  "n","o","p","q","r","s","t","u","v","w","x","y","z">>
LowerOf == [c \in Range(UpperLetters) |->
               LowerLetters[CHOOSE k \in 1..Len(UpperLetters) : UpperLetters[k] = c]]

\* str.lower() on one character
LowerChar(c) == IF c \in DOMAIN LowerOf THEN LowerOf[c] ELSE c

\* str.lower()
Lower(s) == [k \in 1..Len(s) |-> LowerChar(s[k])]

\* the Python test `needle in hay` on strings
Contains(needle, hay) ==
    \E k \in 0..(Len(hay) - Len(needle)) :
        \A j \in 1..Len(needle) : hay[k + j] = needle[j]

\* sep.join(parts): the parts with the separator between neighbours
RECURSIVE Join(_, _)
Join(sep, parts) ==
    IF parts = <<>> THEN <<>>
    ELSE IF Len(parts) = 1 THEN <<parts[1]>>
    ELSE <<parts[1], sep>> \o Join(sep, Tail(parts))

\* every order in which a set can be iterated
RECURSIVE Orders(_)
Orders(S) ==
    IF S = {} THEN {<<>>}
    ELSE UNION {{<<x>> \o rest : rest \in Orders(S \ {x})} : x \in S}

\* type names of schema definitions
s_int64 == <<"i", "n", "t", "6", "4">>
s_uint32 == <<"u", "i", "n", "t", "3", "2">>
s_float64 == <<"f", "l", "o", "a", "t", "6", "4">>
s_boolean == <<"b", "o", "o", "l", "e", "a", "n">>
s_string == <<"s", "t", "r", "i", "n", "g">>
s_datetime == <<"d", "a", "t", "e", "t", "i", "m", "e">>
s_struct == <<"s", "t", "r", "u", "c", "t">>
s_list == <<"l", "i", "s", "t">>
s_foo == <<"f", "o", "o">>
s_Int64 == <<"I", "n", "t", "6", "4">>
s_STRUCT == <<"S", "T", "R", "U", "C", "T">>
s_List == <<"L", "i", "s", "t">>

\* substrings the validator looks for in the rendering of a runtime type
s_Struct == <<"S", "t", "r", "u", "c", "t">>
s_Int == <<"I", "n", "t">>
s_UInt == <<"U", "I", "n", "t">>
s_Float == <<"F", "l", "o", "a", "t">>
s_Datetime == <<"D", "a", "t", "e", "t", "i", "m", "e">>

-----------------------------------------------------------------------------
(* Runtime types (polars data types) and their rendering str(dtype). *)

\* a data type: its class name, the parameters an instance prints after it,
\* the element type of a list, the fields of a struct
DType(name, params, inner, flds) ==
    [name |-> name, params |-> params, inner |-> inner, fields |-> flds]

Int64 == DType(<<"I", "n", "t", "6", "4">>, <<>>, None, <<>>)
UInt32 == DType(<<"U", "I", "n", "t", "3", "2">>, <<>>, None, <<>>)
Float64 == DType(<<"F", "l", "o", "a", "t", "6", "4">>, <<>>, None, <<>>)
Float32 == DType(<<"F", "l", "o", "a", "t", "3", "2">>, <<>>, None, <<>>)
Boolean == DType(<<"B", "o", "o", "l", "e", "a", "n">>, <<>>, None, <<>>)
String == DType(<<"S", "t", "r", "i", "n", "g">>, <<>>, None, <<>>)
\* the class pl.Datetime, as the type table holds it
Datetime == DType(s_Datetime, <<>>, None, <<>>)
\* a Datetime instance, as a DataFrame column carries it
DatetimeUs ==
    DType(s_Datetime,
          <<"(", "t", "i", "m", "e", "_", "u", "n", "i", "t", "=", "'", "u", "s",
            "'", ",", " ", "t", "i", "m", "e", "_", "z", "o", "n", "e", "=", "N",
            "o", "n", "e", ")">>,
          None, <<>>)
\* pl.List(inner)
List(inner) == DType(s_List, <<>>, Some(inner), <<>>)
\* pl.Struct(field_dict): flds is the ordered dict, a sequence of [name, dtype]
Struct(flds) == DType(s_Struct, <<>>, None, flds)

IsList(t) == t.name = s_List
IsStruct(t) == t.name = s_Struct

\* str(dtype): "Int64", "Datetime(time_unit='us', time_zone=None)",
\* "List(Int64)", "Struct({'x': Int64, 'y': String})"
RECURSIVE Str(_)
RECURSIVE StrFields(_)
StrFields(flds) ==
    IF flds = <<>> THEN <<>>
    ELSE <<"'", flds[1].name, "'", ":", " ">> \o Str(flds[1].dtype)
         \o (IF Len(flds) > 1 THEN <<",", " ">> \o StrFields(Tail(flds)) ELSE <<>>)
Str(t) ==
    IF IsList(t) THEN t.name \o <<"(">> \o Str(t.inner[1]) \o <<")">>
    ELSE IF IsStruct(t) THEN t.name \o <<"(", "{">> \o StrFields(t.fields) \o <<"}", ")">>
    ELSE t.name \o t.params

-----------------------------------------------------------------------------
(* Results of operations that may raise. *)

Ok(v) == [ok |-> TRUE, val |-> <<v>>, exc |-> "", msg |-> <<>>]
Raise(exc, msg) == [ok |-> FALSE, val |-> <<>>, exc |-> exc, msg |-> msg]

-----------------------------------------------------------------------------
(* constants.py: the table from primitive type names to runtime types. *)

POLARS_DATA_TYPES ==
    (s_int64 :> Int64) @@ (s_uint32 :> UInt32) @@ (s_float64 :> Float64)
    @@ (s_boolean :> Boolean) @@ (s_string :> String) @@ (s_datetime :> Datetime)

-----------------------------------------------------------------------------
(* models.py: SchemaField. *)

\* a SchemaField, or the mapping it is constructed from (description, which
\* no operation reads, is left out)
SchemaField(name, type, nullable, flds, element_type) ==
    [name |-> name, type |-> type, nullable |-> nullable, fields |-> flds,
     element_type |-> element_type]

\* Python truthiness of Optional[List] and Optional[str]: None and empty are false
Truthy(opt) == opt # None /\ opt[1] # <<>>

\* validate_type returning the type as written
validate_type_as_written(v) ==
    IF Lower(v) \notin DOMAIN POLARS_DATA_TYPES /\ Lower(v) \notin {s_struct, s_list}
    THEN Raise("ValueError", <<"Invalid Polars data type: ">> \o v)
    ELSE Ok(v)

\* the field validator of `type`
validate_type(v) ==
    IF Lower(v) \notin DOMAIN POLARS_DATA_TYPES /\ Lower(v) \notin {s_struct, s_list}
    THEN Raise("ValueError", <<"Invalid Polars data type: ">> \o v)
    ELSE Ok(Lower(v))

\* SchemaField(**mapping): the validator runs on `type`, and every nested
\* mapping under `fields` is constructed the same way; one failure anywhere
\* fails the construction
RECURSIVE construct_field(_)
RECURSIVE construct_fields(_)
construct_fields(raws) ==
    IF raws = <<>> THEN Ok(<<>>)
    ELSE LET head == construct_field(raws[1])
             rest == construct_fields(Tail(raws))
         IN  IF ~head.ok THEN head
             ELSE IF ~rest.ok THEN rest
             ELSE Ok(<<head.val[1]>> \o rest.val[1])
construct_field(r) ==
    LET t == validate_type(r.type)
        nested == IF r.fields = None THEN Ok(<<>>) ELSE construct_fields(r.fields[1])
    IN  IF ~t.ok THEN Raise("ValidationError", t.msg)
        ELSE IF ~nested.ok THEN Raise("ValidationError", nested.msg)
        ELSE Ok(SchemaField(r.name, t.val[1], r.nullable,
                            IF r.fields = None THEN None ELSE Some(nested.val[1]),
                            r.element_type))

\* an assignment that puts a new key first
DictSet_first(d, name, dtype) ==
    IF \E k \in 1..Len(d) : d[k].name = name
    THEN [k \in 1..Len(d) |->
            IF d[k].name = name THEN [name |-> name, dtype |-> dtype] ELSE d[k]]
    ELSE <<[name |-> name, dtype |-> dtype]>> \o d

\* field_dict[name] = dtype on an ordered dict: a present key keeps its place
DictSet(d, name, dtype) ==
    IF \E k \in 1..Len(d) : d[k].name = name
    THEN [k \in 1..Len(d) |->
            IF d[k].name = name THEN [name |-> name, dtype |-> dtype] ELSE d[k]]
    ELSE Append(d, [name |-> name, dtype |-> dtype])

\* the handlers of to_polars_type: a KeyError and any other exception both
\* leave as a ValueError
Rewrap(msg) == Raise("ValueError", <<"Error converting schema type to Polars type: ">> \o msg)

RECURSIVE to_polars_type(_)
RECURSIVE field_dict_of(_, _)
\* the loop `for field in self.fields: field_dict[field.name] = field.to_polars_type()`
field_dict_of(flds, d) ==
    IF flds = <<>> THEN Ok(d)
    ELSE LET t == to_polars_type(flds[1])
         IN  IF ~t.ok THEN t
             ELSE field_dict_of(Tail(flds), DictSet(d, flds[1].name, t.val[1]))
\* to_polars_type taking the struct branches whatever `fields` holds
to_polars_type_any_fields(self) ==
    LET flds == IF self.fields = None THEN <<>> ELSE self.fields[1]
    IN
    IF Lower(self.type) = s_struct
    THEN LET d == field_dict_of(flds, <<>>)
         IN  IF d.ok THEN Ok(Struct(d.val[1])) ELSE Rewrap(d.msg)
    ELSE IF Lower(self.type) = s_list /\ Truthy(self.element_type)
    THEN IF Lower(self.element_type[1]) = s_struct
         THEN LET d == field_dict_of(flds, <<>>)
              IN  IF d.ok THEN Ok(List(Struct(d.val[1]))) ELSE Rewrap(d.msg)
         ELSE IF Lower(self.element_type[1]) \notin DOMAIN POLARS_DATA_TYPES
              THEN Rewrap(<<"Invalid element type for list: ">> \o self.element_type[1])
              ELSE Ok(List(POLARS_DATA_TYPES[Lower(self.element_type[1])]))
    ELSE IF Lower(self.type) \in DOMAIN POLARS_DATA_TYPES
         THEN Ok(POLARS_DATA_TYPES[Lower(self.type)])
         ELSE Raise("ValueError",
                    <<"Unknown data type: ", "'">> \o Lower(self.type) \o <<"'">>)

to_polars_type(self) ==
    IF Lower(self.type) = s_struct /\ Truthy(self.fields)
    THEN LET d == field_dict_of(self.fields[1], <<>>)
         IN  IF d.ok THEN Ok(Struct(d.val[1])) ELSE Rewrap(d.msg)
    ELSE IF Lower(self.type) = s_list /\ Truthy(self.element_type)
    THEN IF Lower(self.element_type[1]) = s_struct /\ Truthy(self.fields)
         THEN LET d == field_dict_of(self.fields[1], <<>>)
              IN  IF d.ok THEN Ok(List(Struct(d.val[1]))) ELSE Rewrap(d.msg)
         ELSE IF Lower(self.element_type[1]) \notin DOMAIN POLARS_DATA_TYPES
              THEN Rewrap(<<"Invalid element type for list: ">> \o self.element_type[1])
              ELSE Ok(List(POLARS_DATA_TYPES[Lower(self.element_type[1])]))
    ELSE IF Lower(self.type) \in DOMAIN POLARS_DATA_TYPES
         THEN Ok(POLARS_DATA_TYPES[Lower(self.type)])
         ELSE Raise("ValueError",
                    <<"Unknown data type: ", "'">> \o Lower(self.type) \o <<"'">>)

-----------------------------------------------------------------------------
(* schema.py: the copy of SchemaField.to_polars_type without handlers: a   *)
(* name missing from the table leaves as the KeyError of the lookup.       *)

RECURSIVE schema_py_to_polars_type(_)
RECURSIVE schema_py_field_dict_of(_, _)
schema_py_field_dict_of(flds, d) ==
    IF flds = <<>> THEN Ok(d)
    ELSE LET t == schema_py_to_polars_type(flds[1])
         IN  IF ~t.ok THEN t
             ELSE schema_py_field_dict_of(Tail(flds), DictSet(d, flds[1].name, t.val[1]))
schema_py_to_polars_type(self) ==
    IF Lower(self.type) = s_struct /\ Truthy(self.fields)
    THEN LET d == schema_py_field_dict_of(self.fields[1], <<>>)
         IN  IF d.ok THEN Ok(Struct(d.val[1])) ELSE d
    ELSE IF Lower(self.type) = s_list /\ Truthy(self.element_type)
    THEN IF Lower(self.element_type[1]) = s_struct /\ Truthy(self.fields)
         THEN LET d == schema_py_field_dict_of(self.fields[1], <<>>)
              IN  IF d.ok THEN Ok(List(Struct(d.val[1]))) ELSE d
         ELSE IF Lower(self.element_type[1]) \in DOMAIN POLARS_DATA_TYPES
              THEN Ok(List(POLARS_DATA_TYPES[Lower(self.element_type[1])]))
              ELSE Raise("KeyError", <<"'">> \o Lower(self.element_type[1]) \o <<"'">>)
    ELSE IF Lower(self.type) \in DOMAIN POLARS_DATA_TYPES
         THEN Ok(POLARS_DATA_TYPES[Lower(self.type)])
         ELSE Raise("KeyError", <<"'">> \o Lower(self.type) \o <<"'">>)

-----------------------------------------------------------------------------
(* models.py: TableSchema and DatasetSchema. *)

TableSchema(name, columns) == [name |-> name, columns |-> columns]
DatasetSchema(name, tables) == [name |-> name, tables |-> tables]

\* TableSchema(**mapping): every column is constructed
construct_table(r) ==
    LET cols == construct_fields(r.columns)
    IN  IF cols.ok THEN Ok(TableSchema(r.name, cols.val[1]))
        ELSE Raise("ValidationError", cols.msg)

\* DatasetSchema(**mapping): every table is constructed
RECURSIVE construct_tables(_)
construct_tables(raws) ==
    IF raws = <<>> THEN Ok(<<>>)
    ELSE LET head == construct_table(raws[1])
             rest == construct_tables(Tail(raws))
         IN  IF ~head.ok THEN head
             ELSE IF ~rest.ok THEN rest
             ELSE Ok(<<head.val[1]>> \o rest.val[1])
construct_dataset(r) ==
    LET tabs == construct_tables(r.tables)
    IN  IF tabs.ok THEN Ok(DatasetSchema(r.name, tabs.val[1]))
        ELSE Raise("ValidationError", tabs.msg)

\* the scan `for table in self.tables: if table.name == table_name: return table`,
\* from position k on
RECURSIVE select_from(_, _, _)
select_from(self, table_name, k) ==
    IF k > Len(self.tables)
    THEN Raise("ValueError",
               <<"Table '", table_name, "' not found in dataset '", self.name,
                 "'. Available tables: ">>
               \o Join(", ", [j \in 1..Len(self.tables) |-> self.tables[j].name]))
    ELSE IF self.tables[k].name = table_name THEN Ok(self.tables[k])
    ELSE select_from(self, table_name, k + 1)

\* a scan that keeps the last table of the name
RECURSIVE select_last_from(_, _, _)
select_last_from(self, table_name, k) ==
    IF k = 0 THEN select_from(self, table_name, Len(self.tables) + 1)
    ELSE IF self.tables[k].name = table_name THEN Ok(self.tables[k])
    ELSE select_last_from(self, table_name, k - 1)
select_last(self, table_name) == select_last_from(self, table_name, Len(self.tables))

\* DatasetSchema.select
select(self, table_name) == select_from(self, table_name, 1)

-----------------------------------------------------------------------------
(* exceptions.py *)

\* a SchemaValidationError that loses the list it is given
SchemaValidationError_empty(message, errs) == [message |-> message, errors |-> <<>>]

\* SchemaValidationError(message, errors): `self.errors = errors or []`
SchemaValidationError(message, errs) ==
    [message |-> message, errors |-> IF errs = <<>> THEN <<>> ELSE errs]

\* an exception that carries an object
RaiseObj(exc, obj) == [ok |-> FALSE, val |-> <<obj>>, exc |-> exc, msg |-> <<>>]

-----------------------------------------------------------------------------
(* The DataFrame: a sequence of columns [name, dtype, null_count], names distinct. *)

Column(name, dtype, null_count) == [name |-> name, dtype |-> dtype, null_count |-> null_count]

\* df.columns
df_columns(d) == [k \in 1..Len(d) |-> d[k].name]
\* df.schema[name] and df[name].null_count(), for a name in df.columns
df_column(d, name) == d[CHOOSE k \in 1..Len(d) : d[k].name = name]

\* the order in which a set is iterated: the order `order` gives its elements
Iterate(S, order) == SelectSeq(order, LAMBDA x : x \in S)

-----------------------------------------------------------------------------
(* validators.py: the messages, one per f-string. *)

Msg(kind, col, names, actual, expected, detail) ==
    [kind |-> kind, col |-> col, names |-> names, actual |-> actual,
     expected |-> expected, detail |-> detail]

\* f"Missing columns: {', '.join(missing_columns)}"
MissingColumnsMsg(joined) == Msg("Missing columns", "", joined, <<>>, <<>>, <<>>)
\* f"Extra columns: {', '.join(extra_columns)}"
ExtraColumnsMsg(joined) == Msg("Extra columns", "", joined, <<>>, <<>>, <<>>)
\* f"Column '{col_name}' has type {df_type}, expected {expected_type}"
TypeMismatchMsg(col, actual, expected) ==
    Msg("type mismatch", col, <<>>, Str(actual), Str(expected), <<>>)
\* f"Column '{col.name}' has type {df_type}, expected a struct type"
ExpectedStructMsg(col, actual) ==
    Msg("expected a struct type", col, <<>>, Str(actual), <<>>, <<>>)
\* f"Column '{col.name}' has type {df_type}, expected a list type"
ExpectedListMsg(col, actual) ==
    Msg("expected a list type", col, <<>>, Str(actual), <<>>, <<>>)
\* f"Column '{col_name}' is missing struct fields: {', '.join(missing_fields)}"
MissingStructFieldsMsg(col, joined) ==
    Msg("missing struct fields", col, joined, <<>>, <<>>, <<>>)
\* f"Column '{col.name}' contains null values but is not nullable"
NullsMsg(col) == Msg("contains null values", col, <<>>, <<>>, <<>>, <<>>)
\* f"Error validating column '{col.name}': {str(e)}"
ColumnErrorMsg(col, detail) == Msg("Error validating column", col, <<>>, <<>>, <<>>, detail)

-----------------------------------------------------------------------------
(* validators.py: the checks of one column. *)

\* validate_simple_type without the family cases: an exact comparison only
validate_simple_type_exact(col_name, expected_type_str, df_type_str, df_type, expected_type, errs) ==
    IF expected_type_str # df_type_str
    THEN Append(errs, TypeMismatchMsg(col_name, df_type, expected_type))
    ELSE errs

validate_simple_type(col_name, expected_type_str, df_type_str, df_type, expected_type, errs) ==
    IF (Contains(s_Int, expected_type_str) /\ Contains(s_Int, df_type_str))
       \/ (Contains(s_UInt, expected_type_str) /\ Contains(s_UInt, df_type_str))
    THEN errs
    ELSE IF Contains(s_Float, expected_type_str) /\ Contains(s_Float, df_type_str)
    THEN errs
    ELSE IF Contains(s_Datetime, expected_type_str) /\ Contains(s_Datetime, df_type_str)
    THEN errs
    ELSE IF expected_type_str # df_type_str
    THEN Append(errs, TypeMismatchMsg(col_name, df_type, expected_type))
    ELSE errs

\* hasattr(dtype, "fields"): a Struct instance has the attribute
HasFields(t) == IsStruct(t)

\* set(dtype.fields.keys())
FieldNames(t) == {t.fields[k].name : k \in 1..Len(t.fields)}

\* keys_ok: whether `.fields.keys()` exists; when it does not, the
\* AttributeError is caught and nothing is reported
validate_struct_fields(col_name, expected_type, df_type, errs, keys_ok, order) ==
    IF keys_ok
    THEN LET missing_fields == FieldNames(expected_type) \ FieldNames(df_type)
         IN  IF missing_fields # {}
             THEN Append(errs, MissingStructFieldsMsg(col_name,
                                   Join(", ", Iterate(missing_fields, order))))
             ELSE errs
    ELSE errs

\* validate_column reporting nulls whether or not the column is nullable
validate_column_any_nulls(d, col, errs, keys_ok, order) ==
    LET df_type == df_column(d, col.name).dtype
        expected == to_polars_type(col)
    IN  IF ~expected.ok THEN expected
        ELSE
        LET expected_type == expected.val[1]
            expected_type_str == Str(expected_type)
            df_type_str == Str(df_type)
            typed ==
                IF ~Contains(s_List, expected_type_str) /\ ~Contains(s_Struct, expected_type_str)
                THEN validate_simple_type(col.name, expected_type_str, df_type_str,
                                          df_type, expected_type, errs)
                ELSE IF Contains(s_Struct, expected_type_str) /\ ~Contains(s_Struct, df_type_str)
                THEN Append(errs, ExpectedStructMsg(col.name, df_type))
                ELSE IF Contains(s_List, expected_type_str) /\ ~Contains(s_List, df_type_str)
                THEN Append(errs, ExpectedListMsg(col.name, df_type))
                ELSE IF Contains(s_Struct, expected_type_str) /\ HasFields(expected_type)
                        /\ HasFields(df_type)
                THEN validate_struct_fields(col.name, expected_type, df_type, errs,
                                            keys_ok, order)
                ELSE errs
        IN  IF df_column(d, col.name).null_count > 0
            THEN Ok(Append(typed, NullsMsg(col.name)))
            ELSE Ok(typed)

\* validate_column: the list `errors` after the call, or the exception that
\* leaves it (to_polars_type raises before anything is appended)
validate_column(d, col, errs, keys_ok, order) ==
    LET df_type == df_column(d, col.name).dtype
        expected == to_polars_type(col)
    IN  IF ~expected.ok THEN expected
        ELSE
        LET expected_type == expected.val[1]
            expected_type_str == Str(expected_type)
            df_type_str == Str(df_type)
            typed ==
                IF ~Contains(s_List, expected_type_str) /\ ~Contains(s_Struct, expected_type_str)
                THEN validate_simple_type(col.name, expected_type_str, df_type_str,
                                          df_type, expected_type, errs)
                ELSE IF Contains(s_Struct, expected_type_str) /\ ~Contains(s_Struct, df_type_str)
                THEN Append(errs, ExpectedStructMsg(col.name, df_type))
                ELSE IF Contains(s_List, expected_type_str) /\ ~Contains(s_List, df_type_str)
                THEN Append(errs, ExpectedListMsg(col.name, df_type))
                ELSE IF Contains(s_Struct, expected_type_str) /\ HasFields(expected_type)
                        /\ HasFields(df_type)
                THEN validate_struct_fields(col.name, expected_type, df_type, errs,
                                            keys_ok, order)
                ELSE errs
        IN  IF ~col.nullable /\ df_column(d, col.name).null_count > 0
            THEN Ok(Append(typed, NullsMsg(col.name)))
            ELSE Ok(typed)

\* the loop body of schema.py reporting nulls whether or not the column is
\* nullable
schema_py_validate_column_any_nulls(d, col, errs, keys_ok, order) ==
    LET df_type == df_column(d, col.name).dtype
        expected == schema_py_to_polars_type(col)
    IN  IF ~expected.ok THEN expected
        ELSE LET r == validate_column(d, [col EXCEPT !.nullable = TRUE], errs, keys_ok, order)
             IN  IF df_column(d, col.name).null_count > 0
                 THEN Ok(Append(r.val[1], NullsMsg(col.name)))
                 ELSE r

\* schema.py, lines 136-183: the body of the loop of its validate_dataframe,
\* the same statements as validate_column, validate_simple_type and
\* validate_struct_fields, with the types resolved by schema.py
schema_py_validate_column(d, col, errs, keys_ok, order) ==
    LET df_type == df_column(d, col.name).dtype
        expected == schema_py_to_polars_type(col)
    IN  IF ~expected.ok THEN expected
        ELSE
        LET expected_type == expected.val[1]
            expected_type_str == Str(expected_type)
            df_type_str == Str(df_type)
            typed ==
                IF ~Contains(s_List, expected_type_str) /\ ~Contains(s_Struct, expected_type_str)
                THEN validate_simple_type(col.name, expected_type_str, df_type_str,
                                          df_type, expected_type, errs)
                ELSE IF Contains(s_Struct, expected_type_str) /\ ~Contains(s_Struct, df_type_str)
                THEN Append(errs, ExpectedStructMsg(col.name, df_type))
                ELSE IF Contains(s_List, expected_type_str) /\ ~Contains(s_List, df_type_str)
                THEN Append(errs, ExpectedListMsg(col.name, df_type))
                ELSE IF Contains(s_Struct, expected_type_str) /\ HasFields(expected_type)
                        /\ HasFields(df_type)
                THEN validate_struct_fields(col.name, expected_type, df_type, errs,
                                            keys_ok, order)
                ELSE errs
        IN  IF ~col.nullable /\ df_column(d, col.name).null_count > 0
            THEN Ok(Append(typed, NullsMsg(col.name)))
            ELSE Ok(typed)

-----------------------------------------------------------------------------
(* The inputs of validate_dataframe. *)

\* the columns a schema may declare, and the column only a DataFrame has
ColumnNames == {"id", "age"}
ExtraName == "extra"
\* every column name, in the order of the DataFrame's columns
AllColumnNames == <<"id", "age", "extra">>
\* the field names of structs

NullCounts == 0..MaxNulls

f_x == SchemaField("x", s_int64, FALSE, None, None)
f_y == SchemaField("y", s_string, FALSE, None, None)

\* declared columns of a few kinds: a primitive, and a list
\* whose element type is in no table
FewKinds(n, nl) ==
    { SchemaField(n, s_int64, nl, None, None),
      SchemaField(n, s_list, nl, None, Some(s_foo)) }

\* declared columns of every kind
ManyKinds(n, nl) ==
    FewKinds(n, nl) \cup
    { SchemaField(n, s_struct, nl, Some(<<f_x, f_y>>), None),
      SchemaField(n, s_uint32, nl, None, None),
      SchemaField(n, s_float64, nl, None, None),
      SchemaField(n, s_boolean, nl, None, None),
      SchemaField(n, s_string, nl, None, None),
      SchemaField(n, s_datetime, nl, None, None),
      SchemaField(n, s_struct, nl, None, None),
      SchemaField(n, s_list, nl, None, Some(s_int64)),
      SchemaField(n, s_list, nl, Some(<<f_x>>), Some(s_struct)),
      SchemaField(n, s_list, nl, None, None) }

FewTypes == {Int64, String}

ManyTypes ==
    FewTypes \cup
    { Struct(<<[name |-> "x", dtype |-> Int64]>>),
      UInt32, Float32, Float64, Boolean, DatetimeUs,
      List(Int64), List(String),
      List(Struct(<<[name |-> "x", dtype |-> Int64]>>)),
      Struct(<<[name |-> "x", dtype |-> Int64], [name |-> "y", dtype |-> String]>>),
      Struct(<<[name |-> "x", dtype |-> String], [name |-> "y", dtype |-> String],
               [name |-> "z", dtype |-> Int64]>>),
      Struct(<<[name |-> "x", dtype |-> List(Int64)]>>) }

\* the sequences over S of length at most n
RECURSIVE SeqsUpTo(_, _)
SeqsUpTo(S, n) ==
    IF n = 0 THEN {<<>>}
    ELSE LET shorter == SeqsUpTo(S, n - 1)
         IN  shorter \cup {Append(q, x) : q \in {r \in shorter : Len(r) = n - 1}, x \in S}

\* the DataFrames whose columns are among `names` (a sequence: the column
\* order), with types from `types`
RECURSIVE Frames(_, _)
Frames(names, types) ==
    IF names = <<>> THEN {<<>>}
    ELSE LET rest == Frames(Tail(names), types)
         IN  rest \cup {<<Column(names[1], t, n)>> \o r :
                            t \in types, n \in NullCounts, r \in rest}

\* schemas of up to MaxCols columns of a few kinds, any DataFrame over them
WideInputs ==
    /\ table_schema \in
          SeqsUpTo(UNION {FewKinds(n, nl) : n \in ColumnNames, nl \in BOOLEAN}, MaxCols)
    /\ df \in {d \o e : d \in Frames(<<"id", "age">>, FewTypes),
                        e \in {<<>>, <<Column(ExtraName, String, 0)>>,
                               <<Column(ExtraName, Int64, 1)>>}}

\* schemas of one column of every kind, against every type
DeepInputs ==
    /\ table_schema \in {<<c>> : c \in UNION {ManyKinds("id", nl) : nl \in BOOLEAN}}
    /\ df \in {d \o e : d \in Frames(<<"id">>, ManyTypes),
                        e \in {<<>>, <<Column(ExtraName, String, 0)>>}}

-----------------------------------------------------------------------------
(* validators.py: validate_dataframe, step by step. *)

\* how an operation ended: the operation, the object it was called on, its
\* argument, and what it returned or raised
Outcome(op, self, arg, res) == [op |-> op, self |-> self, arg |-> arg, res |-> res]
NoOutcome == Outcome("", None, None, Raise("", <<>>))

\* a call of validators.validate_dataframe(df, table_schema, raise_exception)
\* or of schema.validate_dataframe(df, table_schema), which has no third
\* argument
Init ==
    /\ \/ WideInputs /\ fields_is_mapping = TRUE
       \/ DeepInputs /\ fields_is_mapping \in BOOLEAN
    /\ \/ impl = "validators" /\ raise_exception \in BOOLEAN
       \/ impl = "schema" /\ raise_exception = FALSE
    /\ pc = "validate"
    /\ errors = <<>>
    /\ i = 1
    /\ outcome = NoOutcome
    /\ raw = None
    /\ dataset = None
    /\ previous = None

\* check_column_existence reporting every missing column in a message of its own
check_column_existence_each(schema, d, errs, order) ==
    LET schema_columns == {schema[k].name : k \in 1..Len(schema)}
        df_cols == Range(df_columns(d))
        missing == Iterate(schema_columns \ df_cols, order)
        extra_columns == df_cols \ schema_columns
        e1 == errs \o [k \in 1..Len(missing) |-> MissingColumnsMsg(<<missing[k]>>)]
    IN  IF extra_columns # {}
        THEN Append(e1, ExtraColumnsMsg(Join(", ", Iterate(extra_columns, order))))
        ELSE e1

\* check_column_existence reporting the extra columns before the missing ones
check_column_existence_swapped(schema, d, errs, order) ==
    LET schema_columns == {schema[k].name : k \in 1..Len(schema)}
        df_cols == Range(df_columns(d))
        missing_columns == schema_columns \ df_cols
        extra_columns == df_cols \ schema_columns
        e1 == IF extra_columns # {}
              THEN Append(errs, ExtraColumnsMsg(Join(", ", Iterate(extra_columns, order))))
              ELSE errs
    IN  IF missing_columns # {}
        THEN Append(e1, MissingColumnsMsg(Join(", ", Iterate(missing_columns, order))))
        ELSE e1

\* lines 39-53: the column sets and the two aggregated messages.  The sets
\* are iterated in some order; `order` lists the names in that order.  (The
\* handler of lines 54-57 is never entered: building two sets of strings and
\* joining them raises nothing.)
check_column_existence(schema, d, errs, order) ==
    LET schema_columns == {schema[k].name : k \in 1..Len(schema)}
        df_cols == Range(df_columns(d))
        missing_columns == schema_columns \ df_cols
        extra_columns == df_cols \ schema_columns
        e1 == IF missing_columns # {}
              THEN Append(errs, MissingColumnsMsg(
                              Join(", ", Iterate(missing_columns, order))))
              ELSE errs
    IN  IF extra_columns # {}
        THEN Append(e1, ExtraColumnsMsg(Join(", ", Iterate(extra_columns, order))))
        ELSE e1

\* the names the two aggregated messages list
UnmatchedNames(schema, d) ==
    LET schema_columns == {schema[k].name : k \in 1..Len(schema)}
        df_cols == Range(df_columns(d))
    IN  (schema_columns \ df_cols) \cup (df_cols \ schema_columns)

\* (schema.py, lines 121-131, are the same statements without the handler)
CheckColumnExistence ==
    /\ pc = "validate"
    /\ \E order \in Orders(UnmatchedNames(table_schema, df)) :
         errors' = check_column_existence(table_schema, df, errors, order)
    /\ pc' = "columns"
    /\ UNCHANGED <<impl, table_schema, df, raise_exception, fields_is_mapping, i, outcome,
                   raw, dataset, previous>>

\* the names of the fields a column declares: the names a missing-fields
\* message can list
DeclaredFieldNames(col) ==
    IF col.fields = None THEN {} ELSE {col.fields[1][k].name : k \in 1..Len(col.fields[1])}

\* lines 60-67: one turn of the loop over table_schema.columns.  The set of
\* missing field names is iterated in some order; `order` gives it.
\* loop_turn checking a column only while no extra column has been reported
loop_turn_unless_extra(d, col, errs, keys_ok, order) ==
    IF col.name \in Range(df_columns(d))
       /\ \A k \in 1..Len(errs) : errs[k].kind # "Extra columns"
    THEN LET r == validate_column(d, col, errs, keys_ok, order)
         IN  IF r.ok THEN r.val[1]
             ELSE Append(errs, ColumnErrorMsg(col.name, r.msg))
    ELSE errs

\* loop_turn with the list test made on its own, not as a branch of the chain
loop_turn_separate_list_test(d, col, errs, keys_ok, order) ==
    IF col.name \in Range(df_columns(d))
    THEN LET r == validate_column(d, col, errs, keys_ok, order)
             df_type == df_column(d, col.name).dtype
         IN  IF r.ok
             THEN IF Contains(s_List, Str(to_polars_type(col).val[1]))
                     /\ ~Contains(s_List, Str(df_type))
                  THEN Append(r.val[1], ExpectedListMsg(col.name, df_type))
                  ELSE r.val[1]
             ELSE Append(errs, ColumnErrorMsg(col.name, r.msg))
    ELSE errs

\* loop_turn comparing the renderings of two list types, element types included
loop_turn_comparing_elements(d, col, errs, keys_ok, order) ==
    IF col.name \in Range(df_columns(d))
    THEN LET r == validate_column(d, col, errs, keys_ok, order)
             df_type == df_column(d, col.name).dtype
         IN  IF r.ok
             THEN IF IsList(df_type) /\ IsList(to_polars_type(col).val[1])
                     /\ Str(df_type) # Str(to_polars_type(col).val[1])
                  THEN Append(r.val[1], TypeMismatchMsg(col.name, df_type,
                                                        to_polars_type(col).val[1]))
                  ELSE r.val[1]
             ELSE Append(errs, ColumnErrorMsg(col.name, r.msg))
    ELSE errs

loop_turn(d, col, errs, keys_ok, order) ==
    IF col.name \in Range(df_columns(d))
    THEN LET r == validate_column(d, col, errs, keys_ok, order)
         IN  IF r.ok THEN r.val[1]
             ELSE Append(errs, ColumnErrorMsg(col.name, r.msg))
    ELSE errs

ValidateColumn ==
    /\ pc = "columns"
    /\ impl = "validators"
    /\ i <= Len(table_schema)
    /\ \E order \in Orders(DeclaredFieldNames(table_schema[i])) :
         errors' = loop_turn(df, table_schema[i], errors, fields_is_mapping, order)
    /\ i' = i + 1
    /\ UNCHANGED <<pc, impl, table_schema, df, raise_exception, fields_is_mapping, outcome,
                   raw, dataset, previous>>

\* schema.py, lines 134-183: one turn of the loop of its validate_dataframe;
\* an exception of to_polars_type ends the call
SchemaPyValidateColumn ==
    /\ pc = "columns"
    /\ impl = "schema"
    /\ i <= Len(table_schema)
    /\ LET col == table_schema[i]
       IN  IF col.name \in Range(df_columns(df))
           THEN \E order \in Orders(DeclaredFieldNames(col)) :
                  LET r == schema_py_validate_column(df, col, errors, fields_is_mapping, order)
                  IN  IF r.ok
                      THEN /\ errors' = r.val[1]
                           /\ i' = i + 1
                           /\ UNCHANGED <<pc, outcome>>
                      ELSE /\ outcome' = Outcome("validate_dataframe", None, None, r)
                           /\ pc' = "done"
                           /\ UNCHANGED <<errors, i>>
           ELSE /\ i' = i + 1
                /\ UNCHANGED <<pc, outcome, errors>>
    /\ UNCHANGED <<impl, table_schema, df, raise_exception, fields_is_mapping, raw, dataset, previous>>

\* lines 69-71: after the loop, errors and raise_exception
RaiseValidationError ==
    /\ pc = "columns"
    /\ impl = "validators"
    /\ i > Len(table_schema)
    /\ errors # <<>> /\ raise_exception
    /\ outcome' = Outcome("validate_dataframe", None, None,
                           RaiseObj("SchemaValidationError",
                               SchemaValidationError("DataFrame validation failed", errors)))
    /\ pc' = "done"
    /\ UNCHANGED <<impl, table_schema, df, raise_exception, fields_is_mapping, errors, i,
                   raw, dataset, previous>>

\* lines 73-78: after the loop, `return errors` (schema.py, line 185)
ReturnErrors ==
    /\ pc = "columns"
    /\ i > Len(table_schema)
    /\ ~(errors # <<>> /\ raise_exception)
    /\ outcome' = Outcome("validate_dataframe", None, None, Ok(errors))
    /\ pc' = "done"
    /\ UNCHANGED <<impl, table_schema, df, raise_exception, fields_is_mapping, errors, i,
                   raw, dataset, previous>>

\* the whole loop of lines 60-67, from column k on
RECURSIVE run_columns(_, _, _, _, _, _)
run_columns(schema, d, k, errs, keys_ok, order) ==
    IF k > Len(schema) THEN errs
    ELSE run_columns(schema, d, k + 1, loop_turn(d, schema[k], errs, keys_ok, order),
                     keys_ok, order)

\* lines 36-67: the list `errors` when the loop has ended
accumulated_errors(schema, d, keys_ok, column_order, field_order) ==
    run_columns(schema, d, 1, check_column_existence(schema, d, <<>>, column_order),
                keys_ok, field_order)

Next ==
    \/ CheckColumnExistence
    \/ ValidateColumn
    \/ SchemaPyValidateColumn
    \/ RaiseValidationError
    \/ ReturnErrors

Spec == Init /\ [][Next]_vars

-----------------------------------------------------------------------------
(* Two calls of validate_dataframe on the same arguments, in default mode. *)

\* the first call is of validators.validate_dataframe
InitTwice == Init /\ impl = "validators" /\ raise_exception = FALSE

\* the call has ended; the same df and table_schema are validated once more,
\* by either module.  The later call may run in another interpreter: the
\* order in which it iterates a set of strings is chosen anew (it follows
\* the hash seed of the interpreter).
CallAgain ==
    /\ pc = "done"
    /\ previous = None
    /\ previous' = Some([impl |-> impl, res |-> outcome.res])
    /\ impl' \in {"validators", "schema"}
    /\ pc' = "validate"
    /\ errors' = <<>>
    /\ i' = 1
    /\ outcome' = NoOutcome
    /\ UNCHANGED <<table_schema, df, raise_exception, fields_is_mapping, raw, dataset>>

\* with raise_exception = False the raise of lines 69-71 is never reached
NextTwice ==
    \/ CheckColumnExistence
    \/ ValidateColumn
    \/ SchemaPyValidateColumn
    \/ ReturnErrors
    \/ CallAgain

SpecTwice == InitTwice /\ [][NextTwice]_vars

-----------------------------------------------------------------------------
(* The inputs of schema construction: parsed definitions, as written by a *)
(* schema author (type names in any case, known or not).                   *)

RawLeaves ==
    {SchemaField(n, t, FALSE, None, None) :
        n \in {"x", "y"}, t \in {s_int64, s_Int64, s_string, s_foo}}

r_x == SchemaField("x", s_int64, FALSE, None, None)
r_X == SchemaField("x", s_Int64, FALSE, None, None)
r_y == SchemaField("y", s_string, FALSE, None, None)
r_bad == SchemaField("y", s_foo, FALSE, None, None)

\* field lists: empty, ordered, with a repeated name, with an unknown type
RawChildLists ==
    {<<>>, <<r_x>>, <<r_X, r_y>>, <<r_y, r_x>>,
     <<r_x, SchemaField("x", s_string, FALSE, None, None)>>, <<r_bad>>, <<r_x, r_bad>>}

\* a column with any combination of type, fields and element_type
RawColumns ==
    {SchemaField("a", t, FALSE, fl, et) :
        t \in {s_struct, s_STRUCT, s_list, s_List, s_int64, s_foo},
        fl \in {None} \cup {Some(c) : c \in RawChildLists},
        et \in {None, Some(<<>>), Some(s_int64), Some(s_Int64), Some(s_struct),
                Some(s_STRUCT), Some(s_foo), Some(s_list)}}

\* a struct, or a list of structs, one of whose fields is such a column
RawNested ==
    {SchemaField("b", t, FALSE, Some(fl), et) :
        t \in {s_struct, s_list},
        et \in {None, Some(s_struct)},
        fl \in UNION {{<<c>>, <<r_y, c>>} :
                  c \in {SchemaField("a", ct, FALSE, cf, ce) :
                            ct \in {s_struct, s_list, s_foo},
                            cf \in {None} \cup {Some(l) : l \in RawChildLists},
                            ce \in {None, Some(s_int64), Some(s_struct)}}}}

RawTable(name, columns) == [name |-> name, columns |-> columns]
RawDataset(name, tables) == [name |-> name, tables |-> tables]

TableNames == {"users", "Users", "orders"}

\* tables that differ in name or in columns
RawTables == {RawTable(n, cols) : n \in TableNames, cols \in {<<r_x>>, <<r_y>>}}

\* one table of one column of every shape; and every table list of simple tables
RawDatasets ==
    {RawDataset("ds", <<RawTable("t", <<c>>)>>) : c \in RawLeaves \cup RawColumns \cup RawNested}
    \cup {RawDataset("ds", <<RawTable("t", <<r_x, c>>)>>) : c \in RawLeaves}
    \cup {RawDataset("ds", ts) : ts \in SeqsUpTo(RawTables, MaxTables)}

-----------------------------------------------------------------------------
(* The schema model in use: construction, then conversions and selections. *)

InitSchema ==
    /\ raw \in {Some(r) : r \in RawDatasets}
    /\ dataset = None
    /\ impl = "validators"
    /\ pc = "construct"
    /\ outcome = NoOutcome
    /\ table_schema = <<>>
    /\ df = <<>>
    /\ raise_exception = FALSE
    /\ fields_is_mapping = TRUE
    /\ errors = <<>>
    /\ i = 1
    /\ previous = None

\* DatasetSchema(**raw)
ConstructDataset ==
    /\ pc = "construct"
    /\ LET r == construct_dataset(raw[1])
       IN  /\ dataset' = IF r.ok THEN Some(r.val[1]) ELSE None
           /\ pc' = IF r.ok THEN "constructed" ELSE "rejected"
           /\ outcome' = Outcome("DatasetSchema", None, raw, r)
    /\ UNCHANGED <<impl, table_schema, df, raise_exception, fields_is_mapping, errors, i, raw, previous>>

\* column.to_polars_type() on a column of a table of the dataset
ToPolarsType ==
    /\ pc = "constructed"
    /\ \E t \in 1..Len(dataset[1].tables) :
         \E c \in 1..Len(dataset[1].tables[t].columns) :
           LET self == dataset[1].tables[t].columns[c]
           IN  outcome' = Outcome("to_polars_type", Some(self), None, to_polars_type(self))
    /\ UNCHANGED <<pc, impl, table_schema, df, raise_exception, fields_is_mapping, errors, i,
                   raw, dataset, previous>>

\* the same call on schema.py's copy of the class
SchemaPyToPolarsType ==
    /\ pc = "constructed"
    /\ \E t \in 1..Len(dataset[1].tables) :
         \E c \in 1..Len(dataset[1].tables[t].columns) :
           LET self == dataset[1].tables[t].columns[c]
           IN  outcome' = Outcome("schema.to_polars_type", Some(self), None,
                                  schema_py_to_polars_type(self))
    /\ UNCHANGED <<pc, impl, table_schema, df, raise_exception, fields_is_mapping, errors, i,
                   raw, dataset, previous>>

\* dataset.select(table_name)
Select ==
    /\ pc = "constructed"
    /\ \E name \in TableNames \cup {"missing"} :
         outcome' = Outcome("select", dataset, Some(name), select(dataset[1], name))
    /\ UNCHANGED <<pc, impl, table_schema, df, raise_exception, fields_is_mapping, errors, i,
                   raw, dataset, previous>>

NextSchema == ConstructDataset \/ ToPolarsType \/ SchemaPyToPolarsType \/ Select

SpecSchema == InitSchema /\ [][NextSchema]_vars

-----------------------------------------------------------------------------
(* Properties of validate_dataframe. *)

\* the call has returned a list
Returned == pc = "done" /\ outcome.op = "validate_dataframe" /\ outcome.res.ok
ReturnedList == outcome.res.val[1]

SchemaNames == {table_schema[k].name : k \in 1..Len(table_schema)}
FrameNames == Range(df_columns(df))

\* the names an aggregated message lists: the parts of the joined text
Listed(joined) == [k \in 1..((Len(joined) + 1) \div 2) |-> joined[2 * k - 1]]
WellJoined(joined) ==
    \A k \in 1..Len(joined) : (k % 2 = 0) => joined[k] = ", "

\* the positions of the messages of one kind
OfKind(list, kind) == {k \in 1..Len(list) : list[k].kind = kind}

\* the type families of the comparison policy
IntegerTypes == {Int64, UInt32}
FloatTypes == {Float32, Float64}
DatetimeTypes == {Datetime, DatetimeUs}
SameFamily(a, b) ==
    \E F \in {IntegerTypes, FloatTypes, DatetimeTypes} : a \in F /\ b \in F
TypeMatches(expected, actual) == expected = actual \/ SameFamily(expected, actual)

\* a declared column that the DataFrame has, with a matching type and no
\* nulls unless nullable
Conforms(col) ==
    /\ col.name \in FrameNames
    /\ to_polars_type(col).ok
    /\ TypeMatches(to_polars_type(col).val[1], df_column(df, col.name).dtype)
    /\ ~col.nullable => df_column(df, col.name).null_count = 0

Conforming ==
    /\ SchemaNames = FrameNames
    /\ \A k \in 1..Len(table_schema) : Conforms(table_schema[k])

\* C1: a DataFrame whose column names are the schema's, whose column types
\* match the declared ones (identical, or of the same integer, float or
\* datetime family) and whose non-nullable columns hold no nulls is validated
\* to the empty list.
C1_ConformingIsEmpty ==
    (pc = "done" /\ Conforming) => outcome.res = Ok(<<>>)

\* a conforming DataFrame with a column matched by family only was validated
C1_Witness ==
    /\ pc = "done" /\ Conforming
    /\ \E k \in 1..Len(table_schema) :
         to_polars_type(table_schema[k]).val[1] # df_column(df, table_schema[k].name).dtype
    /\ outcome.res = Ok(<<>>)

\* C2: when declared columns are absent from the DataFrame the returned list
\* has exactly one "Missing columns" message, which names each absent
\* declared column once and nothing else; when none is absent it has no such
\* message.
C2_MissingColumnsMessage ==
    Returned =>
        LET at == OfKind(ReturnedList, "Missing columns")
            missing == SchemaNames \ FrameNames
        IN  IF missing = {} THEN at = {}
            ELSE /\ Cardinality(at) = 1
                 /\ \A k \in at :
                      /\ WellJoined(ReturnedList[k].names)
                      /\ Range(Listed(ReturnedList[k].names)) = missing
                      /\ Len(Listed(ReturnedList[k].names)) = Cardinality(missing)

\* a list with a message that names two absent columns was returned
C2_Witness ==
    /\ Returned
    /\ Cardinality(SchemaNames \ FrameNames) = 2
    /\ OfKind(ReturnedList, "Missing columns") # {}

\* a list of messages, disregarding the order in which a message lists names
Normalize(list) ==
    [k \in 1..Len(list) |-> [list[k] EXCEPT !.names = Range(Listed(@))]]

\* the messages of the per-column checks
PerColumn(list) ==
    SelectSeq(list, LAMBDA m : m.kind \notin {"Missing columns", "Extra columns"})

\* the DataFrame without the columns the schema does not declare
WithoutExtras(d) == SelectSeq(d, LAMBDA c : c.name \in SchemaNames)

FieldOrder == <<"x", "y", "z">>

\* C3: when the DataFrame has undeclared columns the returned list has exactly
\* one "Extra columns" message, which names each undeclared column once and
\* nothing else, and its per-column messages are those of the DataFrame
\* without the undeclared columns.
C3_ExtraColumnsMessage ==
    (Returned /\ FrameNames \ SchemaNames # {}) =>
        LET at == OfKind(ReturnedList, "Extra columns")
            extra == FrameNames \ SchemaNames
        IN  /\ Cardinality(at) = 1
            /\ \A k \in at :
                 /\ WellJoined(ReturnedList[k].names)
                 /\ Range(Listed(ReturnedList[k].names)) = extra
                 /\ Len(Listed(ReturnedList[k].names)) = Cardinality(extra)
            /\ Normalize(PerColumn(ReturnedList))
               = Normalize(run_columns(table_schema, WithoutExtras(df), 1, <<>>,
                                       fields_is_mapping, FieldOrder))

\* a list with an extra-columns message and per-column messages was returned
C3_Witness ==
    /\ Returned
    /\ FrameNames \ SchemaNames # {}
    /\ Len(PerColumn(ReturnedList)) >= 2

\* no two entries of the schema's column list have the same name
UniqueNames == Cardinality(SchemaNames) = Len(table_schema)

\* where a message belongs: the missing-columns message, the extra-columns
\* message, then the columns as declared
Rank(m) ==
    IF m.kind = "Missing columns" THEN 0
    ELSE IF m.kind = "Extra columns" THEN 1
    ELSE 1 + (CHOOSE k \in 1..Len(table_schema) : table_schema[k].name = m.col)

\* C4: in the returned list the missing-columns message comes first, then the
\* extra-columns message, then the per-column messages in the order in which
\* the schema declares their columns.
C4_MessageOrder ==
    (Returned /\ UniqueNames) =>
        \A p, q \in 1..Len(ReturnedList) :
            p < q => /\ Rank(ReturnedList[p]) <= Rank(ReturnedList[q])
                     /\ Rank(ReturnedList[p]) = Rank(ReturnedList[q])
                            => Rank(ReturnedList[p]) > 1

\* a list with the extra-columns message and messages about two columns,
\* two of them about the first, was returned
C4_Witness ==
    /\ Returned /\ UniqueNames /\ Len(table_schema) = 2
    /\ OfKind(ReturnedList, "Extra columns") # {}
    /\ Cardinality({k \in 1..Len(ReturnedList) : ReturnedList[k].col = table_schema[1].name}) = 2
    /\ \E k \in 1..Len(ReturnedList) : ReturnedList[k].col = table_schema[2].name

\* the number of nullability messages about a column
NullMessages(list, name) ==
    Cardinality({k \in OfKind(list, "contains null values") : list[k].col = name})

\* C5: for every declared column that the DataFrame has, the returned list
\* holds exactly one nullability message about it when it is declared
\* non-nullable and has at least one null, and none otherwise.
C5_NullabilityMessage ==
    (Returned /\ UniqueNames) =>
        \A k \in 1..Len(table_schema) :
            LET col == table_schema[k]
            IN  col.name \in FrameNames =>
                  NullMessages(ReturnedList, col.name)
                  = IF ~col.nullable /\ df_column(df, col.name).null_count >= 1
                    THEN 1 ELSE 0

\* C6: with raise_exception the call raises SchemaValidationError exactly
\* when the list accumulated by all the checks is not empty, and the exception
\* carries that list; otherwise the call returns the list.
C6_RaiseIffErrors ==
    (pc = "done" /\ impl = "validators") =>
        LET full == accumulated_errors(table_schema, df, fields_is_mapping,
                                       AllColumnNames, FieldOrder)
        IN  /\ i = Len(table_schema) + 1
            /\ ~outcome.res.ok <=> (raise_exception /\ full # <<>>)
            /\ ~outcome.res.ok =>
                 /\ outcome.res.exc = "SchemaValidationError"
                 /\ Normalize(outcome.res.val[1].errors) = Normalize(full)
            /\ outcome.res.ok => Normalize(outcome.res.val[1]) = Normalize(full)

\* a SchemaValidationError with three messages was raised
C6_Witness ==
    /\ pc = "done" /\ impl = "validators" /\ ~outcome.res.ok
    /\ Len(outcome.res.val[1].errors) >= 3

-----------------------------------------------------------------------------
(* Properties of the schema model. *)

\* C7: select returns the first table of the dataset whose name is exactly
\* the name asked for, when there is one, and otherwise fails with a message
\* that lists the names of all the dataset's tables in their declared order;
\* it never returns a table of another name.
C7_Select ==
    outcome.op = "select" =>
        LET ds == outcome.self[1]
            name == outcome.arg[1]
            hits == {k \in 1..Len(ds.tables) : ds.tables[k].name = name}
            res == outcome.res
        IN  IF hits # {}
            THEN /\ res.ok
                 /\ res.val[1].name = name
                 /\ \E k \in hits : /\ \A j \in hits : k <= j
                                    /\ res.val[1] = ds.tables[k]
            ELSE /\ ~res.ok
                 /\ res.exc = "ValueError"
                 /\ res.msg[2] = name
                 /\ LET listed == SubSeq(res.msg, 6, Len(res.msg))
                    IN  /\ WellJoined(listed)
                        /\ Listed(listed) = [k \in 1..Len(ds.tables) |-> ds.tables[k].name]

\* a selection failed on a dataset of three tables, two of them of one name
C7_Witness ==
    /\ outcome.op = "select" /\ ~outcome.res.ok
    /\ Len(outcome.self[1].tables) = 3
    /\ outcome.self[1].tables[1].name = outcome.self[1].tables[3].name
    /\ outcome.self[1].tables[1].name # outcome.self[1].tables[2].name

PrimitiveNames == DOMAIN POLARS_DATA_TYPES
RecognizedNames == PrimitiveNames \cup {s_struct, s_list}

\* the type strings of a tree of fields
RECURSIVE TypesIn(_)
TypesIn(f) ==
    {f.type} \cup
    (IF f.fields = None THEN {}
     ELSE UNION {TypesIn(f.fields[1][k]) : k \in 1..Len(f.fields[1])})
TypesOfTable(tb) == UNION {TypesIn(tb.columns[c]) : c \in 1..Len(tb.columns)}
TypesOfDataset(ds) == UNION {TypesOfTable(ds.tables[t]) : t \in 1..Len(ds.tables)}

\* a tree of fields with every type in lower case, all else as written
RECURSIVE Lowered(_)
Lowered(f) ==
    [f EXCEPT !.type = Lower(@),
              !.fields = IF @ = None THEN None
                         ELSE Some([k \in 1..Len(@[1]) |-> Lowered(@[1][k])])]
LoweredTable(tb) ==
    TableSchema(tb.name, [c \in 1..Len(tb.columns) |-> Lowered(tb.columns[c])])
LoweredDataset(ds) ==
    DatasetSchema(ds.name, [t \in 1..Len(ds.tables) |-> LoweredTable(ds.tables[t])])

\* C8: a definition is constructed exactly when the lower-case form of every
\* type in it, at every depth, is a primitive name, "struct" or "list"; the
\* constructed fields then store the lower-case forms.
C8_TypeNames ==
    pc # "construct" =>
        /\ pc = "constructed" <=>
               \A t \in TypesOfDataset(raw[1]) : Lower(t) \in RecognizedNames
        /\ pc = "constructed" =>
               /\ dataset[1] = LoweredDataset(raw[1])
               /\ TypesOfDataset(dataset[1]) \subseteq RecognizedNames
        /\ pc = "rejected" => dataset = None /\ ~outcome.res.ok

\* a struct written "STRUCT" with a field written "Int64" was constructed
C8_Witness ==
    /\ pc = "constructed"
    /\ Len(raw[1].tables) = 1
    /\ raw[1].tables[1].columns[1].type = s_STRUCT
    /\ raw[1].tables[1].columns[1].fields # None
    /\ raw[1].tables[1].columns[1].fields[1] # <<>>
    /\ raw[1].tables[1].columns[1].fields[1][1].type = s_Int64
    /\ dataset[1].tables[1].columns[1].fields[1][1].type = s_int64

\* a struct without fields, a list without element type, a list of structs
\* without fields
Defective(f) ==
    \/ f.type = s_struct /\ ~Truthy(f.fields)
    \/ f.type = s_list /\ f.element_type = None
    \/ /\ f.type = s_list /\ f.element_type # None
       /\ Lower(f.element_type[1]) = s_struct /\ ~Truthy(f.fields)

NamesDistinct(flds) ==
    \A j, k \in 1..Len(flds) : flds[j].name = flds[k].name => j = k

\* a tree of fields that declares a type for every node
RECURSIVE WellFormed(_)
WellFormed(f) ==
    LET children == \A k \in 1..Len(f.fields[1]) : WellFormed(f.fields[1][k])
    IN  \/ f.type \in PrimitiveNames
        \/ /\ f.type = s_struct
           /\ Truthy(f.fields) /\ NamesDistinct(f.fields[1]) /\ children
        \/ /\ f.type = s_list /\ f.element_type # None
           /\ \/ Lower(f.element_type[1]) \in PrimitiveNames
              \/ /\ Lower(f.element_type[1]) = s_struct
                 /\ Truthy(f.fields) /\ NamesDistinct(f.fields[1]) /\ children

\* the conversion of a well-formed tree, case by case
RECURSIVE Reference(_)
Reference(f) ==
    LET record == Struct([k \in 1..Len(f.fields[1]) |->
                            [name |-> f.fields[1][k].name,
                             dtype |-> Reference(f.fields[1][k])]])
    IN  IF f.type \in PrimitiveNames THEN POLARS_DATA_TYPES[f.type]
        ELSE IF f.type = s_struct THEN record
        ELSE IF Lower(f.element_type[1]) = s_struct THEN List(record)
        ELSE List(POLARS_DATA_TYPES[Lower(f.element_type[1])])

\* C10: on a well-formed tree to_polars_type returns, on every call, the
\* reference conversion: the table entry of a primitive, the struct of the
\* converted fields in declared order, the list of such a struct, the list of
\* a primitive.
C10_WellFormedConverts ==
    (outcome.op \in {"to_polars_type", "schema.to_polars_type"}
     /\ WellFormed(outcome.self[1])) =>
        outcome.res = Ok(Reference(outcome.self[1]))

\* a struct of two fields, the second a struct or a list, was converted
C10_Witness ==
    /\ outcome.op = "to_polars_type" /\ WellFormed(outcome.self[1])
    /\ outcome.self[1].type = s_struct
    /\ Len(outcome.self[1].fields[1]) = 2
    /\ outcome.self[1].fields[1][2].type \in {s_struct, s_list}
    /\ outcome.res.ok

-----------------------------------------------------------------------------
(* Properties of the checks of one column. *)

\* the declared column at position k is in the DataFrame and its runtime type
\* resolves
Resolved(k) ==
    /\ table_schema[k].name \in FrameNames
    /\ to_polars_type(table_schema[k]).ok
ExpectedType(k) == to_polars_type(table_schema[k]).val[1]
ActualType(k) == df_column(df, table_schema[k].name).dtype

\* a runtime type that is neither a list nor a struct
Primitive(t) == ~IsList(t) /\ ~IsStruct(t)

\* the positions of the messages of one kind about one column
About(list, kind, name) == {p \in OfKind(list, kind) : list[p].col = name}

\* C11: for a declared column whose expected type is primitive the returned
\* list holds no type-mismatch message when the expected and actual types are
\* identical or of the same integer, float or datetime family, and exactly
\* one, naming the actual and the expected type, in every other case, an
\* actual list or struct included.
C11_PrimitiveComparison ==
    (Returned /\ UniqueNames) =>
        \A k \in 1..Len(table_schema) :
            (Resolved(k) /\ Primitive(ExpectedType(k))) =>
                LET at == About(ReturnedList, "type mismatch", table_schema[k].name)
                IN  IF TypeMatches(ExpectedType(k), ActualType(k))
                    THEN at = {}
                    ELSE /\ Cardinality(at) = 1
                         /\ \A p \in at :
                              /\ ReturnedList[p].actual = Str(ActualType(k))
                              /\ ReturnedList[p].expected = Str(ExpectedType(k))

\* C12: an expected struct type against an actual type that is not a struct
\* (a primitive or any list) always yields an "expected a struct type"
\* message; an expected list type against an actual type that is not a list
\* (a primitive or any struct) always yields an "expected a list type"
\* message; an expected list type against an actual list type never yields
\* an "expected a struct type" message.
C12_StructuralKind ==
    (Returned /\ UniqueNames) =>
        \A k \in 1..Len(table_schema) :
            Resolved(k) =>
                LET name == table_schema[k].name
                IN  /\ (IsStruct(ExpectedType(k)) /\ ~IsStruct(ActualType(k)))
                        => About(ReturnedList, "expected a struct type", name) # {}
                    /\ (IsList(ExpectedType(k)) /\ ~IsList(ActualType(k)))
                        => About(ReturnedList, "expected a list type", name) # {}
                    /\ (IsList(ExpectedType(k)) /\ IsList(ActualType(k)))
                        => About(ReturnedList, "expected a struct type", name) = {}

\* C13: for a declared struct column whose actual type is a struct the
\* returned list holds exactly one "missing struct fields" message, listing
\* each declared top-level field name the actual struct lacks once and
\* nothing else, when there is such a name, and no such message when every
\* declared top-level name is present, whatever the types of the fields and
\* whatever further fields the actual struct has.
C13_StructFields ==
    (Returned /\ UniqueNames) =>
        \A k \in 1..Len(table_schema) :
            (Resolved(k) /\ IsStruct(ExpectedType(k)) /\ IsStruct(ActualType(k))) =>
                LET at == About(ReturnedList, "missing struct fields", table_schema[k].name)
                    missing == FieldNames(ExpectedType(k)) \ FieldNames(ActualType(k))
                IN  IF missing = {} THEN at = {}
                    ELSE /\ Cardinality(at) = 1
                         /\ \A p \in at :
                              /\ WellJoined(ReturnedList[p].names)
                              /\ Range(Listed(ReturnedList[p].names)) = missing
                              /\ Len(Listed(ReturnedList[p].names)) = Cardinality(missing)

\* C15: the nullability check of a declared column that the DataFrame has
\* runs whatever the type check of the column did, also when the declared
\* type does not resolve: a non-nullable column with at least one null always
\* has its nullability message in the returned list.
C15_NullabilityAlwaysRuns ==
    (Returned /\ UniqueNames) =>
        \A k \in 1..Len(table_schema) :
            (/\ table_schema[k].name \in FrameNames
             /\ ~table_schema[k].nullable
             /\ df_column(df, table_schema[k].name).null_count >= 1)
            => About(ReturnedList, "contains null values", table_schema[k].name) # {}

\* the declared column at position k is in the DataFrame and its runtime type
\* does not resolve
Unresolvable(k) ==
    /\ table_schema[k].name \in FrameNames
    /\ ~to_polars_type(table_schema[k]).ok

\* C16: when the runtime type of a declared column of the DataFrame does not
\* resolve, validate_dataframe ends at that column with the error of the
\* resolution, raised to its caller; no returned or carried list has an
\* entry made from such an error.
C16_DefinitionErrorPropagates ==
    (pc = "done" /\ outcome.op = "validate_dataframe") =>
        /\ (\E k \in 1..Len(table_schema) : Unresolvable(k)) =>
              /\ ~outcome.res.ok
              /\ outcome.res.exc \in {"ValueError", "KeyError"}
              /\ i \in 1..Len(table_schema) /\ Unresolvable(i)
              /\ \A k \in 1..(i - 1) : ~Unresolvable(k)
        /\ outcome.res.ok => OfKind(ReturnedList, "Error validating column") = {}

\* the kinds of the messages about the type or the structure of a column
TypeKinds ==
    {"type mismatch", "expected a struct type", "expected a list type",
     "missing struct fields"}

\* C19: for a declared list of a primitive element type and an actual list
\* type, whatever its element type, the returned list holds no message
\* about the type or the structure of the column.
C19_ListElementsNotCompared ==
    (Returned /\ UniqueNames) =>
        \A k \in 1..Len(table_schema) :
            (/\ Resolved(k)
             /\ IsList(ExpectedType(k)) /\ Primitive(ExpectedType(k).inner[1])
             /\ IsList(ActualType(k)))
            => \A kind \in TypeKinds :
                   About(ReturnedList, kind, table_schema[k].name) = {}

\* a declared list of integers was validated against a list of strings
C19_Witness ==
    /\ Returned
    /\ Len(table_schema) = 1 /\ Resolved(1)
    /\ ExpectedType(1) = List(Int64)
    /\ ActualType(1) = List(String)
    /\ \A p \in 1..Len(ReturnedList) : ReturnedList[p].kind \notin TypeKinds

\* the number of entries of the schema's column list with a name
Entries(name) == Cardinality({k \in 1..Len(table_schema) : table_schema[k].name = name})
\* the number of entries whose column the DataFrame has
EntriesPresent ==
    Cardinality({k \in 1..Len(table_schema) : table_schema[k].name \in FrameNames})
\* the positions of the messages of some kinds about one column
AboutAny(list, kinds, name) == UNION {About(list, kind, name) : kind \in kinds}

\* C20: a list returned by validators.validate_dataframe has at most one
\* missing-columns and at most one extra-columns message and, for every entry
\* of the schema's column list, at most one message about type, structure or
\* a failed validation and at most one nullability message; an entry whose
\* column the DataFrame lacks has no message; so the list is no longer than
\* 2 + 2 * (the number of entries whose column the DataFrame has).
C20_MessageCounts ==
    (Returned /\ impl = "validators") =>
        /\ Cardinality(OfKind(ReturnedList, "Missing columns")) <= 1
        /\ Cardinality(OfKind(ReturnedList, "Extra columns")) <= 1
        /\ \A name \in SchemaNames :
             LET typed == AboutAny(ReturnedList,
                                   TypeKinds \cup {"Error validating column"}, name)
                 nulls == About(ReturnedList, "contains null values", name)
             IN  IF name \in FrameNames
                 THEN /\ Cardinality(typed) <= Entries(name)
                      /\ Cardinality(nulls) <= Entries(name)
                 ELSE typed = {} /\ nulls = {}
        /\ \A p \in 1..Len(ReturnedList) :
             ReturnedList[p].kind \notin {"Missing columns", "Extra columns"}
                 => ReturnedList[p].col \in SchemaNames
        /\ Len(ReturnedList) <= 2 + 2 * EntriesPresent

\* a list with the extra-columns message and two messages for each of two
\* columns was returned
C20_Witness ==
    /\ Returned /\ impl = "validators"
    /\ EntriesPresent = 2
    /\ Len(ReturnedList) = 1 + 2 * EntriesPresent
    /\ OfKind(ReturnedList, "Extra columns") # {}

-----------------------------------------------------------------------------
(* Scenarios. *)

\* the schema {id: integer, not nullable; age: integer, nullable} and a
\* DataFrame with the columns id (no nulls), age (one null) and extra
IdAgeExtra ==
    /\ table_schema = <<SchemaField("id", s_int64, FALSE, None, None),
                        SchemaField("age", s_int64, TRUE, None, None)>>
    /\ FrameNames = {"id", "age", ExtraName}
    /\ df_column(df, "id").null_count = 0
    /\ df_column(df, "age").null_count = 1

\* C14, as stated: in the scenario the returned list has exactly two
\* messages, one of them the extra-columns message naming extra, and no
\* nullability and no missing-columns message.
C14_TwoMessages ==
    (Returned /\ IdAgeExtra) =>
        /\ Len(ReturnedList) = 2
        /\ \E p \in 1..Len(ReturnedList) :
             ReturnedList[p] = ExtraColumnsMsg(<<ExtraName>>)
        /\ OfKind(ReturnedList, "contains null values") = {}
        /\ OfKind(ReturnedList, "Missing columns") = {}

\* C14, amended: in the scenario, with id and age of integer types in the
\* DataFrame, the returned list is exactly the extra-columns message naming
\* extra: one message, no nullability and no missing-columns message.
C14_OneMessage ==
    (Returned /\ IdAgeExtra
     /\ df_column(df, "id").dtype \in IntegerTypes
     /\ df_column(df, "age").dtype \in IntegerTypes) =>
        ReturnedList = <<ExtraColumnsMsg(<<ExtraName>>)>>

\* the scenario was validated, with an extra column of either type
C14_Witness ==
    /\ Returned /\ IdAgeExtra
    /\ df_column(df, "id").dtype \in IntegerTypes
    /\ df_column(df, "age").dtype \in IntegerTypes
    /\ df_column(df, ExtraName).dtype = Int64
    /\ ReturnedList = <<ExtraColumnsMsg(<<ExtraName>>)>>

-----------------------------------------------------------------------------
(* Properties of two calls on the same arguments. *)

\* both calls have ended
BothDone == pc = "done" /\ previous # None
\* what a call returned, disregarding the order in which a message lists names
NormalizeResult(res) == IF res.ok THEN Ok(Normalize(res.val[1])) ELSE res

\* C17: two calls of validate_dataframe with the same schema and the same
\* DataFrame return the same list, message for message and character for
\* character, the order of the names inside an aggregated message included.
C17_PureFunction ==
    (BothDone /\ previous[1].impl = "validators" /\ impl = "validators") =>
        outcome.res = previous[1].res

\* the runtime type of every declared column that the DataFrame has resolves
AllResolve ==
    \A k \in 1..Len(table_schema) :
        table_schema[k].name \in FrameNames => to_polars_type(table_schema[k]).ok

\* C18: when the runtime type of every declared column of the DataFrame
\* resolves, schema.validate_dataframe and validators.validate_dataframe in
\* default mode return the same messages in the same order (the names inside
\* an aggregated message compared as a set).
C18_ValidatorsAgree ==
    (BothDone /\ previous[1].impl # impl /\ AllResolve) =>
        /\ outcome.res.ok /\ previous[1].res.ok
        /\ Normalize(outcome.res.val[1]) = Normalize(previous[1].res.val[1])

\* the two modules validated the same arguments and returned three messages
C18_Witness ==
    /\ BothDone /\ previous[1].impl = "validators" /\ impl = "schema" /\ AllResolve
    /\ outcome.res.ok
    /\ Len(outcome.res.val[1]) >= 3
    /\ Normalize(outcome.res.val[1]) = Normalize(previous[1].res.val[1])

=============================================================================
